---- MODULE Spec2Model ----
(***************************************************************************)
(* Secbank core banking system: the transaction posting engine.            *)
(*                                                                         *)
(* The model follows server/db.ts (account store, reference generator,    *)
(* ledger, Instapay records), the tRPC procedures of server/routers.ts    *)
(* (account.updateStatus, deposit, withdraw, internalTransfer,            *)
(* switch.instapaySend, switch.instapayCallback) and the posting handlers *)
(* of server/restApi.ts.  Every handler is an async function: between     *)
(* two awaited database statements other requests may run, so a handler   *)
(* is a process whose steps are its awaited statements, one action each.  *)
(* Money is counted in centavos (the tables hold decimal(18,2)); on such  *)
(* values parseFloat, +, - and toFixed(2) are exact.                      *)
(***************************************************************************)
EXTENDS Integers, Sequences, FiniteSets, TLC

\* ---------------------------------------------------------------- bounds
NumProcs == 3        \* requests of one run (each process serves one request)
NumConc == 2         \* requests that may overlap in the concurrent runs
NumAccounts == 2     \* rows of the accounts table
MaxAmount == 2       \* request amounts are 1..MaxAmount centavos
InitialBalance == 2  \* opening balance of the funded runs, in centavos
NumTeller == 2       \* requests of a run whose requests may name any account

\* ------------------------------------------------------ program constants
InstapayLimit == 5000000   \* 50000 pesos, in centavos
MaxAttempts == 100         \* draws of generateAccountNumber

Procs == 1..NumProcs
AccountIds == 1..NumAccounts
Amounts == 1..MaxAmount
Dates == {"20260115", "20260116"}
CallbackStatuses == {"PENDING", "SUCCESS", "FAILED"}
AccountStatuses == {"active", "closed"}
NoRow == [id |-> 0]   \* a select that found nothing

VARIABLES
    accounts,              \* accounts table: id -> [accountNumber, balance, status]
    transactions,          \* ledger table, in insertion order
    instapayTransactions,  \* Instapay records, in insertion order
    transactionSequence,   \* date -> lastSequence of its counter row, 0: no row
    today,                 \* the date new Date() gives, as YYYYMMDD
    pc,                    \* per request: the awaited statement it is at
    loc                    \* per request: its inputs and local variables

vars == <<accounts, transactions, instapayTransactions, transactionSequence, today, pc, loc>>

tables == <<accounts, transactions, instapayTransactions, transactionSequence>>

\* ------------------------------------------------------- pure functions
Digit(d) ==
    CASE d = 0 -> "0" [] d = 1 -> "1" [] d = 2 -> "2" [] d = 3 -> "3"
      [] d = 4 -> "4" [] d = 5 -> "5" [] d = 6 -> "6" [] d = 7 -> "7"
      [] d = 8 -> "8" [] d = 9 -> "9"

RECURSIVE NumToString(_)
NumToString(n) ==
    IF n < 10 THEN Digit(n) ELSE NumToString(n \div 10) \o Digit(n % 10)

RECURSIVE padStart(_, _, _)
padStart(s, n, fill) == IF Len(s) >= n THEN s ELSE padStart(fill \o s, n, fill)

\* `TXN${dateStr}${sequence.toString().padStart(6, '0')}`
FormatReference(dateStr, sequence) ==
    "TXN" \o dateStr \o padStart(NumToString(sequence), 6, "0")

\* branch code + 7-digit suffix
AccountNumber(id) == "001" \o NumToString(1000000 + id)

\* ------------------------------------------------------------ the store
getAccountById(id) == IF id \in DOMAIN accounts THEN accounts[id] ELSE NoRow

getAccountByNumber(number) ==
    IF \E a \in DOMAIN accounts : accounts[a].accountNumber = number
    THEN accounts[CHOOSE a \in DOMAIN accounts : accounts[a].accountNumber = number]
    ELSE NoRow

\* An update that matches no row.
updateAccountBalanceOfNone(accountId, newBalance) == accounts

\* UPDATE accounts SET balance = newBalance WHERE id = accountId
updateAccountBalance(accountId, newBalance) ==
    IF accountId \in DOMAIN accounts
    THEN [accounts EXCEPT ![accountId].balance = newBalance]
    ELSE accounts

ReferenceTaken(table, ref) == \E i \in 1..Len(table) : table[i].referenceNumber = ref

getInstapayTransactionByReference(ref) ==
    IF ReferenceTaken(instapayTransactions, ref)
    THEN instapayTransactions[CHOOSE i \in 1..Len(instapayTransactions) :
                                  instapayTransactions[i].referenceNumber = ref]
    ELSE NoRow

\* A ledger row that does not name the related account.
LedgerRowUnlinked(ref, accountId, type, amount, balanceAfter, relatedId, relatedNumber, description) ==
    [referenceNumber |-> ref, accountId |-> accountId, type |-> type,
     amount |-> amount, balanceAfter |-> balanceAfter,
     relatedAccountId |-> 0, relatedAccountNumber |-> "",
     description |-> description]

LedgerRow(ref, accountId, type, amount, balanceAfter, relatedId, relatedNumber, description) ==
    [referenceNumber |-> ref, accountId |-> accountId, type |-> type,
     amount |-> amount, balanceAfter |-> balanceAfter,
     relatedAccountId |-> relatedId, relatedAccountNumber |-> relatedNumber,
     description |-> description]

\* ------------------------------------------------------- request locals
Loc0 ==
    [op |-> "", accountId |-> 0, toAccountNumber |-> "", amount |-> 0,
     cbReference |-> "", cbStatus |-> "", status |-> "", description |-> "",
     branchCode |-> "", accountNumber |-> "", attempts |-> 0,
     account |-> NoRow, toAccount |-> NoRow, existingTx |-> NoRow,
     newBalance |-> 0, newToBalance |-> 0,
     dateStr |-> "", existing |-> 0, referenceNumber |-> "", senderRef |-> "",
     next |-> "", afterRead |-> "", handler |-> "", returnedStatus |-> "", result |-> "",
     \* history, read by no guard: the tables when the request began and ended,
     \* the requests in progress when it began, the balance rows it wrote
     began |-> [accounts |-> <<>>, ledger |-> <<>>, instapay |-> <<>>, sequence |-> <<>>],
     ended |-> [accounts |-> <<>>, ledger |-> <<>>, instapay |-> <<>>, sequence |-> <<>>],
     overlapped |-> {}, wrote |-> {}]

Running(p) == pc[p] \notin {"idle", "done"}

\* No step that begins or ends a request writes the sequence counter.
Snapshot(accs, txs, ips) ==
    [accounts |-> accs, ledger |-> txs, instapay |-> ips, sequence |-> transactionSequence]

\* The locals of a request that begins now.
Begin(p, op) ==
    [Loc0 EXCEPT !.op = op,
                 !.began = Snapshot(accounts, transactions, instapayTransactions),
                 !.overlapped = {q \in Procs : Running(q)}]

\* The locals of a request that ends with `result`, the tables being as given.
End(l, result, accs, txs, ips) ==
    [l EXCEPT !.result = result, !.ended = Snapshot(accs, txs, ips)]

\* A request ends without touching a table.
Reject(p, l, result) ==
    /\ pc' = [pc EXCEPT ![p] = "done"]
    /\ loc' = [loc EXCEPT ![p] = End(l, result, accounts, transactions, instapayTransactions)]
    /\ UNCHANGED <<tables, today>>

\* A statement of request p threw: the handler stops where it is and the caller
\* gets an error; what it wrote before stays written (no statement runs inside
\* a database transaction).
Throw(p, accs, txs, ips) ==
    /\ pc' = [pc EXCEPT ![p] = "done"]
    /\ loc' = [loc EXCEPT ![p] = End(loc[p], "INTERNAL_ERROR", accs, txs, ips)]

\* ------------------------------------------- generateTransactionReference
\* const dateStr = ...; const [existing] = await db.select()...where(date = dateStr)
GenerateReferenceRead(p) ==
    /\ pc[p] = "gen_read"
    /\ pc' = [pc EXCEPT ![p] = "gen_write"]
    /\ loc' = [loc EXCEPT ![p].dateStr = today,
                          ![p].existing = transactionSequence[today]]
    /\ UNCHANGED <<tables, today>>

\* Midnight (UTC) passes: new Date() gives the next day from now on.
DateChanges ==
    /\ today = "20260115"
    /\ today' = "20260116"
    /\ UNCHANGED <<tables, pc, loc>>

\* A call that numbers every reference 1.
NextSequenceRestarting(existing) == 1

\* The sequence number a call returns after reading `existing` (0: no row).
NextSequence(existing) == IF existing # 0 THEN existing + 1 ELSE 1

\* if (existing) UPDATE ... SET lastSequence = existing.lastSequence + 1
\* else INSERT (date, lastSequence = 1), which the unique key on date refuses
\* when another request has inserted the row since the read.
GenerateReferenceWrite(p) ==
    /\ pc[p] = "gen_write"
    /\ LET l == loc[p]
           sequence == NextSequence(l.existing)
       IN IF l.existing = 0 /\ transactionSequence[l.dateStr] # 0
          THEN /\ Throw(p, accounts, transactions, instapayTransactions)
               /\ UNCHANGED <<tables, today>>
          ELSE /\ transactionSequence' = [transactionSequence EXCEPT ![l.dateStr] = sequence]
               /\ pc' = [pc EXCEPT ![p] = l.next]
               /\ loc' = [loc EXCEPT ![p].referenceNumber = FormatReference(l.dateStr, sequence)]
               /\ UNCHANGED <<accounts, transactions, instapayTransactions, today>>

\* A table without a unique key: no insert is refused.
DuplicateReferenceNever(table, referenceNumber) == FALSE

\* referenceNumber ... .notNull().unique(): an insert of a reference that a row
\* of the table already carries is refused.
DuplicateReference(table, referenceNumber) == ReferenceTaken(table, referenceNumber)

\* An insert that takes the place of the row inserted last.
InsertRowOverLast(table, row) ==
    IF table = <<>> THEN <<row>> ELSE [table EXCEPT ![Len(table)] = row]

\* INSERT INTO table VALUES (row)
InsertRow(table, row) == Append(table, row)

\* await db.insert(transactions).values(row): the unique key on referenceNumber
\* refuses a reference that is already in the table.  On success the request
\* goes on at `nextPc` with locals `l`.
InsertLedgerRow(p, row, nextPc, l) ==
    IF DuplicateReference(transactions, row.referenceNumber)
    THEN /\ Throw(p, accounts, transactions, instapayTransactions)
         /\ UNCHANGED <<tables, today>>
    ELSE /\ transactions' = InsertRow(transactions, row)
         /\ pc' = [pc EXCEPT ![p] = nextPc]
         /\ loc' = [loc EXCEPT ![p] = l]
         /\ UNCHANGED <<accounts, instapayTransactions, transactionSequence, today>>

\* createTransaction: const result = await db.insert(transactions).values({...});
\* the row is read back in the next statement, after which the caller goes on
\* at `nextPc`.
CreateTransactionInsert(p, row, nextPc, l) ==
    InsertLedgerRow(p, row, "tx_read", [l EXCEPT !.afterRead = nextPc])

\* createTransaction: const [transaction] = await db.select()...
\* where(eq(transactions.id, insertId)); return transaction || null.  No
\* caller looks at what is returned before it goes on or replies.
CreateTransactionRead(p) ==
    /\ pc[p] = "tx_read"
    /\ pc' = [pc EXCEPT ![p] = loc[p].afterRead]
    /\ loc' = [loc EXCEPT ![p] =
           IF loc[p].afterRead = "done"
           THEN End(loc[p], "ok", accounts, transactions, instapayTransactions)
           ELSE loc[p]]
    /\ UNCHANGED <<tables, today>>

\* await updateAccountBalance(accountId, newBalance), then go on at nextPc.
WriteBalance(p, accountId, newBalance, nextPc, l) ==
    /\ accounts' = updateAccountBalance(accountId, newBalance)
    /\ pc' = [pc EXCEPT ![p] = nextPc]
    /\ loc' = [loc EXCEPT ![p] = [l EXCEPT !.wrote = @ \cup {accountId}]]
    /\ UNCHANGED <<transactions, instapayTransactions, transactionSequence, today>>

\* ------------------------------------------------- transaction.deposit
\* input check, then const account = await getAccountById(input.accountId)
Deposit(p, accountId, amount) ==
    /\ pc[p] = "idle"
    /\ LET account == getAccountById(accountId)
           b == Begin(p, "deposit")
           l == [b EXCEPT !.accountId = accountId, !.amount = amount, !.account = account,
                          !.description = "Manual Deposit"]
       IN IF amount <= 0 THEN Reject(p, b, "VALIDATION_ERROR")
          ELSE IF account.id = 0 THEN Reject(p, l, "NOT_FOUND")
          ELSE /\ pc' = [pc EXCEPT ![p] = "deposit_update"]
               /\ loc' = [loc EXCEPT ![p] = [l EXCEPT !.newBalance = account.balance + amount]]
               /\ UNCHANGED <<tables, today>>

DepositUpdateBalance(p) ==
    /\ pc[p] = "deposit_update"
    /\ WriteBalance(p, loc[p].accountId, loc[p].newBalance, "gen_read",
                    [loc[p] EXCEPT !.next = "deposit_insert"])

DepositInsert(p) ==
    /\ pc[p] = "deposit_insert"
    /\ LET l == loc[p]
       IN CreateTransactionInsert(p, LedgerRow(l.referenceNumber, l.accountId, "DEPOSIT", l.amount,
                                       l.newBalance, 0, "", l.description),
                          "done", l)

\* ------------------------------------------------ transaction.withdraw
\* A withdrawal that is never refused for its amount.
InsufficientBalanceNever(withdrawAmount, currentBalance) == FALSE

\* A withdrawal that is refused also when it takes the whole balance.
InsufficientBalanceOrAll(withdrawAmount, currentBalance) == withdrawAmount >= currentBalance

\* if (withdrawAmount > currentBalance): "Insufficient balance"
InsufficientBalance(withdrawAmount, currentBalance) == withdrawAmount > currentBalance

Withdraw(p, accountId, amount) ==
    /\ pc[p] = "idle"
    /\ LET account == getAccountById(accountId)
           b == Begin(p, "withdraw")
           l == [b EXCEPT !.accountId = accountId, !.amount = amount, !.account = account,
                          !.description = "Manual Withdrawal"]
       IN IF amount <= 0 THEN Reject(p, b, "VALIDATION_ERROR")
          ELSE IF account.id = 0 THEN Reject(p, l, "NOT_FOUND")
          ELSE IF InsufficientBalance(amount, account.balance)
               THEN Reject(p, l, "INSUFFICIENT_BALANCE")
          ELSE /\ pc' = [pc EXCEPT ![p] = "withdraw_update"]
               /\ loc' = [loc EXCEPT ![p] = [l EXCEPT !.newBalance = account.balance - amount]]
               /\ UNCHANGED <<tables, today>>

WithdrawUpdateBalance(p) ==
    /\ pc[p] = "withdraw_update"
    /\ WriteBalance(p, loc[p].accountId, loc[p].newBalance, "gen_read",
                    [loc[p] EXCEPT !.next = "withdraw_insert"])

WithdrawInsert(p) ==
    /\ pc[p] = "withdraw_insert"
    /\ LET l == loc[p]
       IN CreateTransactionInsert(p, LedgerRow(l.referenceNumber, l.accountId, "WITHDRAWAL", -l.amount,
                                       l.newBalance, 0, "", l.description),
                          "done", l)

\* ----------------------------------------- transaction.internalTransfer
\* const fromAccount = await getAccountById(input.fromAccountId)
InternalTransfer(p, fromAccountId, toAccountNumber, amount) ==
    /\ pc[p] = "idle"
    /\ LET fromAccount == getAccountById(fromAccountId)
           b == Begin(p, "internalTransfer")
           l == [b EXCEPT !.accountId = fromAccountId, !.toAccountNumber = toAccountNumber,
                          !.amount = amount, !.account = fromAccount]
       IN IF amount <= 0 THEN Reject(p, b, "VALIDATION_ERROR")
          ELSE IF fromAccount.id = 0 THEN Reject(p, l, "NOT_FOUND")
          ELSE /\ pc' = [pc EXCEPT ![p] = "transfer_read_to"]
               /\ loc' = [loc EXCEPT ![p] = l]
               /\ UNCHANGED <<tables, today>>

\* const toAccount = await getAccountByNumber(input.toAccountNumber), the checks,
\* and the two new balances
InternalTransferReadTo(p) ==
    /\ pc[p] = "transfer_read_to"
    /\ LET toAccount == getAccountByNumber(loc[p].toAccountNumber)
           l == [loc[p] EXCEPT !.toAccount = toAccount]
       IN IF toAccount.id = 0 THEN Reject(p, l, "NOT_FOUND")
          ELSE IF l.account.id = toAccount.id THEN Reject(p, l, "SAME_ACCOUNT")
          ELSE IF l.amount > l.account.balance THEN Reject(p, l, "INSUFFICIENT_BALANCE")
          ELSE /\ pc' = [pc EXCEPT ![p] = "transfer_update_from"]
               /\ loc' = [loc EXCEPT ![p] =
                      [l EXCEPT !.newBalance = l.account.balance - l.amount,
                                !.newToBalance = toAccount.balance + l.amount]]
               /\ UNCHANGED <<tables, today>>

InternalTransferUpdateFrom(p) ==
    /\ pc[p] = "transfer_update_from"
    /\ WriteBalance(p, loc[p].account.id, loc[p].newBalance, "transfer_update_to", loc[p])

\* The second update as it would be if each transfer held the row it has
\* written until it is through: it waits while another transfer that has
\* written the row holds it and is itself at its second update.
InternalTransferUpdateToWaiting(p) ==
    /\ pc[p] = "transfer_update_to"
    /\ \A q \in Procs \ {p} :
           ~(pc[q] = "transfer_update_to" /\ loc[q].account.id = loc[p].toAccount.id)
    /\ WriteBalance(p, loc[p].toAccount.id, loc[p].newToBalance, "gen_read",
                    [loc[p] EXCEPT !.next = "transfer_insert_sender"])

InternalTransferUpdateTo(p) ==
    /\ pc[p] = "transfer_update_to"
    /\ WriteBalance(p, loc[p].toAccount.id, loc[p].newToBalance, "gen_read",
                    [loc[p] EXCEPT !.next = "transfer_insert_sender"])

InternalTransferInsertSender(p) ==
    /\ pc[p] = "transfer_insert_sender"
    /\ LET l == loc[p]
       IN CreateTransactionInsert(p, LedgerRow(l.referenceNumber, l.account.id, "INTERNAL_TRANSFER",
                                       -l.amount, l.newBalance, l.toAccount.id,
                                       l.toAccount.accountNumber,
                                       "Transfer to " \o l.toAccount.accountNumber),
                          "gen_read",
                          [l EXCEPT !.senderRef = l.referenceNumber,
                                    !.next = "transfer_insert_receiver"])

InternalTransferInsertReceiver(p) ==
    /\ pc[p] = "transfer_insert_receiver"
    /\ LET l == loc[p]
       IN CreateTransactionInsert(p, LedgerRow(l.referenceNumber, l.toAccount.id, "INTERNAL_TRANSFER",
                                       l.amount, l.newToBalance, l.account.id,
                                       l.account.accountNumber,
                                       "Transfer from " \o l.account.accountNumber),
                          "done", l)

\* ------------------------- switch.instapaySend / createInstapayTransaction
\* The recipient's account at the other bank.
RecipientAccountNumber == "2222222222"

\* A transfer of any amount is within the limit.
ExceedsLimitNever(transferAmount) == FALSE

\* if (transferAmount > 50000); the handlers test the same on their input
ExceedsLimit(transferAmount) == transferAmount > InstapayLimit

\* input check, const sourceAccount = await getAccountById(input.sourceAccountId),
\* then createInstapayTransaction, which begins by generating the reference
InstapaySend(p, sourceAccountId, amount) ==
    /\ pc[p] = "idle"
    /\ LET sourceAccount == getAccountById(sourceAccountId)
           b == Begin(p, "instapaySend")
           l == [b EXCEPT !.accountId = sourceAccountId, !.amount = amount,
                          !.account = sourceAccount, !.handler = "trpc"]
       IN IF ~(amount > 0 /\ ~ExceedsLimit(amount)) THEN Reject(p, l, "VALIDATION_ERROR")
          ELSE IF sourceAccount.id = 0 THEN Reject(p, l, "NOT_FOUND")
          ELSE /\ pc' = [pc EXCEPT ![p] = "gen_read"]
               /\ loc' = [loc EXCEPT ![p] = [l EXCEPT !.next = "send_read"]]
               /\ UNCHANGED <<tables, today>>

\* The checks of createInstapayTransaction, each of which throws new Error(...):
\* source account not found, not active, amount <= 0, amount over the limit,
\* balance below the amount.
SendRefused(sourceAccount, transferAmount) ==
    \/ sourceAccount.id = 0
    \/ sourceAccount.status # "active"
    \/ transferAmount <= 0
    \/ ExceedsLimit(transferAmount)
    \/ sourceAccount.balance < transferAmount

\* createInstapayTransaction: const sourceAccount = await getAccountById(...) and
\* the checks.  What they throw is a plain Error: switch.instapaySend rethrows
\* it as INTERNAL_SERVER_ERROR and POST /instapay/send answers 500
\* INTERNAL_ERROR, whichever check it was.
InstapaySendReadAccount(p) ==
    /\ pc[p] = "send_read"
    /\ LET sourceAccount == getAccountById(loc[p].accountId)
           l == [loc[p] EXCEPT !.account = sourceAccount]
       IN IF SendRefused(sourceAccount, l.amount) THEN Reject(p, l, "INTERNAL_ERROR")
          ELSE /\ pc' = [pc EXCEPT ![p] = "send_update"]
               /\ loc' = [loc EXCEPT ![p] =
                      [l EXCEPT !.newBalance = sourceAccount.balance - l.amount]]
               /\ UNCHANGED <<tables, today>>

InstapaySendUpdateBalance(p) ==
    /\ pc[p] = "send_update"
    /\ WriteBalance(p, loc[p].accountId, loc[p].newBalance, "send_insert_ledger", loc[p])

\* A ledger row of a transfer that records the amount without its sign.
InstapayLedgerRowUnsigned(ref, accountId, amount, newBalance) ==
    LedgerRow(ref, accountId, "INSTAPAY", amount, newBalance, 0, RecipientAccountNumber,
              "Instapay to")

\* The ledger row of a transfer: type INSTAPAY, amount (-transferAmount).toFixed(2)
InstapayLedgerRow(ref, accountId, amount, newBalance) ==
    LedgerRow(ref, accountId, "INSTAPAY", -amount, newBalance, 0, RecipientAccountNumber,
              "Instapay to")

\* The record of a transfer, as inserted: status PENDING
InstapayRecord(id, ref, sourceAccount, amount) ==
    [id |-> id, referenceNumber |-> ref,
     sourceAccountId |-> sourceAccount.id,
     sourceAccountNumber |-> sourceAccount.accountNumber,
     accountNumber |-> RecipientAccountNumber,
     amount |-> amount, status |-> "PENDING"]

InstapaySendInsertLedger(p) ==
    /\ pc[p] = "send_insert_ledger"
    /\ LET l == loc[p]
       IN InsertLedgerRow(p, InstapayLedgerRow(l.referenceNumber, l.accountId, l.amount,
                                               l.newBalance),
                          "send_insert_record", l)

\* db.insert(instapayTransactions).values({..., status: "PENDING"}); the unique
\* key on referenceNumber refuses a reference that is already in the table.
InstapaySendInsertRecord(p) ==
    /\ pc[p] = "send_insert_record"
    /\ LET l == loc[p]
           record == InstapayRecord(Len(instapayTransactions) + 1, l.referenceNumber,
                                    l.account, l.amount)
       IN IF DuplicateReference(instapayTransactions, l.referenceNumber)
          THEN /\ Throw(p, accounts, transactions, instapayTransactions)
               /\ UNCHANGED <<tables, today>>
          ELSE /\ instapayTransactions' = Append(instapayTransactions, record)
               /\ pc' = [pc EXCEPT ![p] = "send_read_record"]
               /\ UNCHANGED <<loc, accounts, transactions, transactionSequence, today>>

\* The status in the reply to a send: switch.instapaySend returns
\* status: instapayTx.status, the status of the record as read back;
\* POST /instapay/send replies status: "PENDING", whatever the record holds.
SendReplyStatus(handler, instapayTx) ==
    IF handler = "rest" THEN "PENDING" ELSE instapayTx.status

\* const [instapayTx] = await db.select()...where(eq(instapayTransactions.id,
\* insertId)); return instapayTx || null: both handlers answer with an internal
\* error when it is null; otherwise each replies with its own status field.
InstapaySendReadRecord(p) ==
    /\ pc[p] = "send_read_record"
    /\ LET instapayTx == getInstapayTransactionByReference(loc[p].referenceNumber)
       IN IF instapayTx.id = 0 THEN Reject(p, loc[p], "INTERNAL_ERROR")
          ELSE /\ pc' = [pc EXCEPT ![p] = "done"]
               /\ loc' = [loc EXCEPT ![p] =
                      End([loc[p] EXCEPT !.returnedStatus =
                                  SendReplyStatus(loc[p].handler, instapayTx)], "ok",
                          accounts, transactions, instapayTransactions)]
               /\ UNCHANGED <<tables, today>>

\* ------------------ switch.instapayCallback / updateInstapayTransactionStatus
\* A reversal on every FAILED callback, whatever the record's status.
ReversalDueOnAnyFailed(status, existingTx) == status = "FAILED"

\* if (status === "FAILED" && existingTx.status === "PENDING")
ReversalDue(status, existingTx) == status = "FAILED" /\ existingTx.status = "PENDING"

\* A reversal that writes the balance back without the refund.
RefundedBalanceWithoutCredit(currentBalance, refundAmount) == currentBalance

\* (currentBalance + refundAmount).toFixed(2)
RefundedBalance(currentBalance, refundAmount) == currentBalance + refundAmount

ReversalDescription(referenceNumber) == "Instapay reversal - " \o referenceNumber \o " failed"

\* UPDATE instapayTransactions SET status = ... WHERE referenceNumber = ...
SetInstapayStatus(records, referenceNumber, status) ==
    [i \in 1..Len(records) |->
        IF records[i].referenceNumber = referenceNumber
        THEN [records[i] EXCEPT !.status = status]
        ELSE records[i]]

\* const existingTx = await getInstapayTransactionByReference(referenceNumber);
\* if (!existingTx) throw new Error(...): switch.instapayCallback and
\* POST /instapay/callback both catch it and answer with their internal error.
InstapayCallback(p, referenceNumber, status) ==
    /\ pc[p] = "idle"
    /\ LET existingTx == getInstapayTransactionByReference(referenceNumber)
           l == [Begin(p, "instapayCallback") EXCEPT !.cbReference = referenceNumber,
                                                      !.cbStatus = status,
                                                      !.existingTx = existingTx]
       IN IF existingTx.id = 0 THEN Reject(p, l, "INTERNAL_ERROR")
          ELSE /\ pc' = [pc EXCEPT ![p] = IF ReversalDue(status, existingTx)
                                           THEN "callback_read_account"
                                           ELSE "callback_update_status"]
               /\ loc' = [loc EXCEPT ![p] = l]
               /\ UNCHANGED <<tables, today>>

\* const sourceAccount = await getAccountById(existingTx.sourceAccountId)
InstapayCallbackReadAccount(p) ==
    /\ pc[p] = "callback_read_account"
    /\ LET l == loc[p]
           sourceAccount == getAccountById(l.existingTx.sourceAccountId)
       IN /\ pc' = [pc EXCEPT ![p] = IF sourceAccount.id # 0 THEN "callback_update_balance"
                                      ELSE "callback_update_status"]
          /\ loc' = [loc EXCEPT ![p] =
                 IF sourceAccount.id # 0
                 THEN [l EXCEPT !.account = sourceAccount,
                                !.accountId = sourceAccount.id,
                                !.amount = l.existingTx.amount,
                                !.newBalance = RefundedBalance(sourceAccount.balance,
                                                               l.existingTx.amount)]
                 ELSE l]
          /\ UNCHANGED <<tables, today>>

InstapayCallbackUpdateBalance(p) ==
    /\ pc[p] = "callback_update_balance"
    /\ WriteBalance(p, loc[p].existingTx.sourceAccountId, loc[p].newBalance, "gen_read",
                    [loc[p] EXCEPT !.next = "callback_insert"])

InstapayCallbackInsertReversal(p) ==
    /\ pc[p] = "callback_insert"
    /\ LET l == loc[p]
       IN InsertLedgerRow(p, LedgerRow(l.referenceNumber, l.existingTx.sourceAccountId, "DEPOSIT",
                                       l.existingTx.amount, l.newBalance, 0, "",
                                       ReversalDescription(l.cbReference)),
                          "callback_update_status", l)

\* await db.update(instapayTransactions).set({ status, ... })
\*     .where(eq(instapayTransactions.referenceNumber, referenceNumber))
InstapayCallbackUpdateStatus(p) ==
    /\ pc[p] = "callback_update_status"
    /\ instapayTransactions' =
           SetInstapayStatus(instapayTransactions, loc[p].cbReference, loc[p].cbStatus)
    /\ pc' = [pc EXCEPT ![p] = "callback_read_status"]
    /\ UNCHANGED <<loc, accounts, transactions, transactionSequence, today>>

\* const [updatedTx] = await db.select()...where(referenceNumber = ...);
\* return updatedTx || null: both handlers answer not-found when it is null
\* and with the record's status as it is now otherwise.
InstapayCallbackReadStatus(p) ==
    /\ pc[p] = "callback_read_status"
    /\ LET updatedTx == getInstapayTransactionByReference(loc[p].cbReference)
       IN IF updatedTx.id = 0 THEN Reject(p, loc[p], "NOT_FOUND")
          ELSE /\ pc' = [pc EXCEPT ![p] = "done"]
               /\ loc' = [loc EXCEPT ![p] =
                      End([loc[p] EXCEPT !.returnedStatus = updatedTx.status], "ok",
                          accounts, transactions, instapayTransactions)]
               /\ UNCHANGED <<tables, today>>

\* ------------------------------- account.updateStatus / updateAccountStatus
\* UPDATE accounts SET status = ... WHERE id = accountId, with no condition on
\* the status the row has; then the row is read back for the reply.
updateAccountStatus(accountId, status) ==
    IF accountId \in DOMAIN accounts
    THEN [accounts EXCEPT ![accountId].status = status]
    ELSE accounts

\* await db.update(accounts).set({ status }).where(eq(accounts.id, accountId))
UpdateStatus(p, id, status) ==
    /\ pc[p] = "idle"
    /\ accounts' = updateAccountStatus(id, status)
    /\ pc' = [pc EXCEPT ![p] = "status_read"]
    /\ loc' = [loc EXCEPT ![p] =
           [Begin(p, "updateStatus") EXCEPT !.accountId = id, !.status = status]]
    /\ UNCHANGED <<transactions, instapayTransactions, transactionSequence, today>>

\* const [account] = await db.select()...where(eq(accounts.id, accountId));
\* return account || null: the handlers answer NOT_FOUND when it is null and
\* return the row as it is now otherwise.
UpdateStatusRead(p) ==
    /\ pc[p] = "status_read"
    /\ LET account == getAccountById(loc[p].accountId)
           l == [loc[p] EXCEPT !.account = account]
       IN IF account.id = 0 THEN Reject(p, l, "NOT_FOUND")
          ELSE /\ pc' = [pc EXCEPT ![p] = "done"]
               /\ loc' = [loc EXCEPT ![p] =
                      End(l, "ok", accounts, transactions, instapayTransactions)]
               /\ UNCHANGED <<tables, today>>

\* ------------------------------ account.create / createAccount
BranchCodes == {"001"}

\* Math.floor(1000000 + Math.random() * 9000000): the 7-digit numbers, of
\* which the runs draw the first few; the accounts of the initial states
\* have the numbers 1000001 .. 1000000 + NumAccounts.
Suffixes == {1000000 + i : i \in 1..(NumAccounts + 1)}

\* The unique key on accounts.accountNumber never refuses an insert.
AccountNumberTakenNever(accountNumber) == FALSE

\* The unique key on accounts.accountNumber refuses the insert.
AccountNumberTaken(accountNumber) == getAccountByNumber(accountNumber).id # 0

\* The row createAccount inserts: balance "0.00", status by default active.
\* Ids are given in the order of the inserts.
NewAccountRow(id, accountNumber) ==
    [id |-> id, accountNumber |-> accountNumber, balance |-> 0, status |-> "active"]

CreateAccount(p, branchCode) ==
    /\ pc[p] = "idle"
    /\ pc' = [pc EXCEPT ![p] = "create_draw"]
    /\ loc' = [loc EXCEPT ![p] = [Begin(p, "createAccount") EXCEPT !.branchCode = branchCode]]
    /\ UNCHANGED <<tables, today>>

\* generateAccountNumber, one turn of its loop: a draw, the select for the
\* number drawn, and on a collision the count of attempts
CreateAccountDraw(p) ==
    /\ pc[p] = "create_draw"
    /\ \E randomPart \in Suffixes :
          LET l == loc[p]
              accountNumber == l.branchCode \o NumToString(randomPart)
              existing == getAccountByNumber(accountNumber)
          IN IF existing.id = 0
             THEN /\ pc' = [pc EXCEPT ![p] = "create_insert"]
                  /\ loc' = [loc EXCEPT ![p].accountNumber = accountNumber]
                  /\ UNCHANGED <<tables, today>>
             ELSE IF l.attempts + 1 < MaxAttempts
             THEN /\ loc' = [loc EXCEPT ![p].attempts = l.attempts + 1]
                  /\ UNCHANGED <<tables, today, pc>>
             ELSE /\ pc' = [pc EXCEPT ![p] = "done"]
                  /\ loc' = [loc EXCEPT ![p] =
                         End([l EXCEPT !.attempts = l.attempts + 1], "INTERNAL_ERROR",
                             accounts, transactions, instapayTransactions)]
                  /\ UNCHANGED <<tables, today>>

\* const result = await db.insert(accounts).values({...}); insertId
CreateAccountInsert(p) ==
    /\ pc[p] = "create_insert"
    /\ LET l == loc[p]
           account == NewAccountRow(Len(accounts) + 1, l.accountNumber)
       IN IF AccountNumberTaken(l.accountNumber)
          THEN /\ Throw(p, accounts, transactions, instapayTransactions)
               /\ UNCHANGED <<tables, today>>
          ELSE /\ accounts' = Append(accounts, account)
               /\ pc' = [pc EXCEPT ![p] = "create_read"]
               /\ loc' = [loc EXCEPT ![p] = [l EXCEPT !.accountId = account.id]]
               /\ UNCHANGED <<transactions, instapayTransactions, transactionSequence, today>>

\* const [account] = await db.select()...where(eq(accounts.id, insertId));
\* return account || null: account.create answers INTERNAL_SERVER_ERROR when
\* it is null and returns the row as it is now otherwise.
CreateAccountRead(p) ==
    /\ pc[p] = "create_read"
    /\ LET account == getAccountById(loc[p].accountId)
           l == [loc[p] EXCEPT !.account = account]
       IN IF account.id = 0 THEN Reject(p, l, "INTERNAL_ERROR")
          ELSE /\ pc' = [pc EXCEPT ![p] = "done"]
               /\ loc' = [loc EXCEPT ![p] =
                      End(l, "ok", accounts, transactions, instapayTransactions)]
               /\ UNCHANGED <<tables, today>>

\* --------------------------------------- REST: POST /transactions/deposit
\* The REST handlers find the account by its number and refuse a closed one;
\* from the balance update on they run the statements of the tRPC procedures.
RestDeposit(p, accountNumber, amount) ==
    /\ pc[p] = "idle"
    /\ LET account == getAccountByNumber(accountNumber)
           b == Begin(p, "deposit")
           l == [b EXCEPT !.accountId = account.id, !.amount = amount, !.account = account,
                          !.description = "Deposit via API"]
       IN IF amount <= 0 THEN Reject(p, b, "VALIDATION_ERROR")
          ELSE IF account.id = 0 THEN Reject(p, l, "NOT_FOUND")
          ELSE IF account.status = "closed" THEN Reject(p, l, "ACCOUNT_CLOSED")
          ELSE /\ pc' = [pc EXCEPT ![p] = "deposit_update"]
               /\ loc' = [loc EXCEPT ![p] = [l EXCEPT !.newBalance = account.balance + amount]]
               /\ UNCHANGED <<tables, today>>

\* ------------------------------------ REST: POST /transactions/withdrawal
RestWithdrawal(p, accountNumber, amount) ==
    /\ pc[p] = "idle"
    /\ LET account == getAccountByNumber(accountNumber)
           b == Begin(p, "withdraw")
           l == [b EXCEPT !.accountId = account.id, !.amount = amount, !.account = account,
                          !.description = "Withdrawal via API"]
       IN IF amount <= 0 THEN Reject(p, b, "VALIDATION_ERROR")
          ELSE IF account.id = 0 THEN Reject(p, l, "NOT_FOUND")
          ELSE IF account.status = "closed" THEN Reject(p, l, "ACCOUNT_CLOSED")
          ELSE IF InsufficientBalance(amount, account.balance)
               THEN Reject(p, l, "INSUFFICIENT_BALANCE")
          ELSE /\ pc' = [pc EXCEPT ![p] = "withdraw_update"]
               /\ loc' = [loc EXCEPT ![p] = [l EXCEPT !.newBalance = account.balance - amount]]
               /\ UNCHANGED <<tables, today>>

\* -------------------------------------- REST: POST /transactions/transfer
\* input checks, then const sourceAccount = await getAccountByNumber(...)
RestTransfer(p, sourceAccountNumber, destinationAccountNumber, amount) ==
    /\ pc[p] = "idle"
    /\ LET sourceAccount == getAccountByNumber(sourceAccountNumber)
           b == Begin(p, "internalTransfer")
           l == [b EXCEPT !.accountId = sourceAccount.id,
                          !.toAccountNumber = destinationAccountNumber,
                          !.amount = amount, !.account = sourceAccount]
       IN IF amount <= 0 THEN Reject(p, b, "VALIDATION_ERROR")
          ELSE IF sourceAccountNumber = destinationAccountNumber
               THEN Reject(p, [b EXCEPT !.toAccountNumber = destinationAccountNumber,
                                        !.amount = amount],
                           "VALIDATION_ERROR")
          ELSE /\ pc' = [pc EXCEPT ![p] = "rest_transfer_read_dest"]
               /\ loc' = [loc EXCEPT ![p] = l]
               /\ UNCHANGED <<tables, today>>

\* const destAccount = await getAccountByNumber(...), the checks, and the two
\* new balances
RestTransferReadDest(p) ==
    /\ pc[p] = "rest_transfer_read_dest"
    /\ LET destAccount == getAccountByNumber(loc[p].toAccountNumber)
           l == [loc[p] EXCEPT !.toAccount = destAccount]
       IN IF l.account.id = 0 THEN Reject(p, l, "NOT_FOUND")
          ELSE IF destAccount.id = 0 THEN Reject(p, l, "NOT_FOUND")
          ELSE IF l.account.status = "closed" THEN Reject(p, l, "ACCOUNT_CLOSED")
          ELSE IF destAccount.status = "closed" THEN Reject(p, l, "ACCOUNT_CLOSED")
          ELSE IF l.account.balance < l.amount THEN Reject(p, l, "INSUFFICIENT_BALANCE")
          ELSE /\ pc' = [pc EXCEPT ![p] = "transfer_update_from"]
               /\ loc' = [loc EXCEPT ![p] =
                      [l EXCEPT !.newBalance = l.account.balance - l.amount,
                                !.newToBalance = destAccount.balance + l.amount]]
               /\ UNCHANGED <<tables, today>>

\* ------------------------------------------- REST: POST /instapay/send
\* input checks, the account found by its number, the closed and balance
\* checks, then createInstapayTransaction
RestInstapaySend(p, sourceAccountNumber, amount) ==
    /\ pc[p] = "idle"
    /\ LET sourceAccount == getAccountByNumber(sourceAccountNumber)
           b == Begin(p, "instapaySend")
           l == [b EXCEPT !.accountId = sourceAccount.id, !.amount = amount,
                          !.account = sourceAccount, !.handler = "rest"]
       IN IF amount <= 0 \/ ExceedsLimit(amount) THEN Reject(p, l, "VALIDATION_ERROR")
          ELSE IF sourceAccount.id = 0 THEN Reject(p, l, "NOT_FOUND")
          ELSE IF sourceAccount.status = "closed" THEN Reject(p, l, "ACCOUNT_CLOSED")
          ELSE IF sourceAccount.balance < amount THEN Reject(p, l, "INSUFFICIENT_BALANCE")
          ELSE /\ pc' = [pc EXCEPT ![p] = "gen_read"]
               /\ loc' = [loc EXCEPT ![p] = [l EXCEPT !.next = "send_read"]]
               /\ UNCHANGED <<tables, today>>

\* ------------------------------------------------------- initial states
AccountRow(id, balance) ==
    [id |-> id, accountNumber |-> AccountNumber(id), balance |-> balance, status |-> "active"]

InitProcs ==
    /\ pc = [p \in Procs |-> "idle"]
    /\ loc = [p \in Procs |-> Loc0]

\* A new database: createAccount has made the accounts (balance "0.00", active)
\* and nothing has been posted yet.
InitFresh ==
    /\ accounts = [a \in AccountIds |-> AccountRow(a, 0)]
    /\ transactions = <<>>
    /\ instapayTransactions = <<>>
    /\ transactionSequence = [d \in Dates |-> 0]
    /\ today = "20260115"
    /\ InitProcs

FundedLedger ==
    [a \in AccountIds |->
        LedgerRow(FormatReference("20260115", a), a, "DEPOSIT", InitialBalance,
                  InitialBalance, 0, "", "Manual Deposit")]

\* The database after one deposit of InitialBalance into each account, made one
\* after the other on the same day.
InitFunded ==
    /\ accounts = [a \in AccountIds |-> AccountRow(a, InitialBalance)]
    /\ transactions = FundedLedger
    /\ instapayTransactions = <<>>
    /\ transactionSequence = [d \in Dates |-> IF d = "20260115" THEN NumAccounts ELSE 0]
    /\ today = "20260115"
    /\ InitProcs

\* The database after one deposit into each account that lets it send a
\* transfer of the largest amount Instapay permits.
WealthyBalance == InstapayLimit + InitialBalance

InitWealthy ==
    /\ accounts = [a \in AccountIds |-> AccountRow(a, WealthyBalance)]
    /\ transactions = [a \in AccountIds |->
                          LedgerRow(FormatReference("20260115", a), a, "DEPOSIT",
                                    WealthyBalance, WealthyBalance, 0, "", "Manual Deposit")]
    /\ instapayTransactions = <<>>
    /\ transactionSequence = [d \in Dates |-> IF d = "20260115" THEN NumAccounts ELSE 0]
    /\ today = "20260115"
    /\ InitProcs

\* The funded database after account 1 has sent an Instapay transfer of
\* 1 centavo, for which no callback has come yet.
PendingTransfer ==
    [tables |-> <<[a \in AccountIds |->
                      AccountRow(a, IF a = 1 THEN InitialBalance - 1 ELSE InitialBalance)],
                  Append(FundedLedger,
                         InstapayLedgerRow(FormatReference("20260115", NumAccounts + 1), 1, 1,
                                           InitialBalance - 1)),
                  <<InstapayRecord(1, FormatReference("20260115", NumAccounts + 1),
                                   AccountRow(1, InitialBalance), 1)>>,
                  [d \in Dates |-> IF d = "20260115" THEN NumAccounts + 1 ELSE 0]>>]

InitTransferPending ==
    /\ accounts = PendingTransfer.tables[1]
    /\ transactions = PendingTransfer.tables[2]
    /\ instapayTransactions = PendingTransfer.tables[3]
    /\ transactionSequence = PendingTransfer.tables[4]
    /\ today = "20260115"
    /\ InitProcs

\* ------------------------------------------------------------ scheduling
\* Requests are numbered in the order they arrive.
Arrives(p) == pc[p] = "idle" /\ \A q \in 1..(p - 1) : pc[q] # "idle"

\* Overlapping requests: at most NumConc of them, arriving at any time.
ConcurrentTurn(p) == p <= NumConc /\ Arrives(p)

\* One request at a time: the next arrives when the previous one has ended.
SequentialTurn(p) == Arrives(p) /\ \A q \in Procs : ~Running(q)

\* One request at a time, NumTeller of them.
TellerTurn(p) == p <= NumTeller /\ SequentialTurn(p)

\* ------------------------------------- deposits on a new database, overlapping
NextDeposits ==
    \E p \in Procs :
        \/ \E a \in AccountIds, amount \in Amounts : ConcurrentTurn(p) /\ Deposit(p, a, amount)
        \/ DepositUpdateBalance(p)
        \/ GenerateReferenceRead(p)
        \/ GenerateReferenceWrite(p)
        \/ DepositInsert(p)
        \/ CreateTransactionRead(p)

SpecDeposits == InitFresh /\ [][NextDeposits]_vars

\* ------------------------- debits on funded accounts, overlapping
AccountNumbers == {AccountNumber(a) : a \in AccountIds}

NextDebits ==
    \E p \in Procs :
        \/ \E a \in AccountIds, amount \in Amounts : ConcurrentTurn(p) /\ Withdraw(p, a, amount)
        \/ \E a \in AccountIds, n \in AccountNumbers, amount \in Amounts :
               ConcurrentTurn(p) /\ InternalTransfer(p, a, n, amount)
        \/ \E a \in AccountIds, amount \in Amounts :
               ConcurrentTurn(p) /\ InstapaySend(p, a, amount)
        \/ WithdrawUpdateBalance(p)
        \/ WithdrawInsert(p)
        \/ CreateTransactionRead(p)
        \/ InternalTransferReadTo(p)
        \/ InternalTransferUpdateFrom(p)
        \/ InternalTransferUpdateTo(p)
        \/ InternalTransferInsertSender(p)
        \/ InternalTransferInsertReceiver(p)
        \/ InstapaySendReadAccount(p)
        \/ InstapaySendUpdateBalance(p)
        \/ InstapaySendInsertLedger(p)
        \/ InstapaySendInsertRecord(p)
        \/ InstapaySendReadRecord(p)
        \/ GenerateReferenceRead(p)
        \/ GenerateReferenceWrite(p)

SpecDebits == InitFunded /\ [][NextDebits]_vars

\* ------------- Instapay transfers and switch callbacks, one request at a time
\* A reference the switch may name that no transfer carries.
UnknownReference == "TXN20260115999999"

CallbackReferences ==
    {instapayTransactions[i].referenceNumber : i \in 1..Len(instapayTransactions)}
        \cup {UnknownReference}

NextInterbank ==
    \E p \in Procs :
        \/ \E a \in AccountIds, amount \in Amounts :
               SequentialTurn(p) /\ InstapaySend(p, a, amount)
        \/ \E r \in CallbackReferences, status \in CallbackStatuses :
               SequentialTurn(p) /\ InstapayCallback(p, r, status)
        \/ InstapaySendReadAccount(p)
        \/ InstapaySendUpdateBalance(p)
        \/ InstapaySendInsertLedger(p)
        \/ InstapaySendInsertRecord(p)
        \/ InstapaySendReadRecord(p)
        \/ InstapayCallbackReadAccount(p)
        \/ InstapayCallbackUpdateBalance(p)
        \/ InstapayCallbackInsertReversal(p)
        \/ InstapayCallbackUpdateStatus(p)
        \/ InstapayCallbackReadStatus(p)
        \/ GenerateReferenceRead(p)
        \/ GenerateReferenceWrite(p)

InitInterbank == InitFunded \/ InitTransferPending

SpecInterbank == InitInterbank /\ [][NextInterbank]_vars

\* ------------ deposits, withdrawals and status changes, one request at a time
\* Requests may also name an account that does not exist.
MissingAccountId == NumAccounts + 1
AnyAccountIds == AccountIds \cup {MissingAccountId}
AnyAccountNumbers == {AccountNumber(a) : a \in AnyAccountIds}

NextTeller ==
    \E p \in Procs :
        \/ \E a \in AnyAccountIds, amount \in Amounts :
               TellerTurn(p) /\ Deposit(p, a, amount)
        \/ \E a \in AnyAccountIds, amount \in Amounts :
               TellerTurn(p) /\ Withdraw(p, a, amount)
        \/ \E n \in AnyAccountNumbers, amount \in Amounts :
               TellerTurn(p) /\ RestDeposit(p, n, amount)
        \/ \E n \in AnyAccountNumbers, amount \in Amounts :
               TellerTurn(p) /\ RestWithdrawal(p, n, amount)
        \/ \E a \in AnyAccountIds, status \in AccountStatuses :
               TellerTurn(p) /\ UpdateStatus(p, a, status)
        \/ UpdateStatusRead(p)
        \/ DepositUpdateBalance(p)
        \/ DepositInsert(p)
        \/ CreateTransactionRead(p)
        \/ WithdrawUpdateBalance(p)
        \/ WithdrawInsert(p)
        \/ GenerateReferenceRead(p)
        \/ GenerateReferenceWrite(p)

SpecTeller == InitFunded /\ [][NextTeller]_vars

\* ------------------- transfers and status changes, one request at a time
NextTransfers ==
    \E p \in Procs :
        \/ \E a \in AnyAccountIds, n \in AnyAccountNumbers, amount \in Amounts :
               TellerTurn(p) /\ InternalTransfer(p, a, n, amount)
        \/ \E n, m \in AnyAccountNumbers, amount \in Amounts :
               TellerTurn(p) /\ RestTransfer(p, n, m, amount)
        \/ \E a \in AnyAccountIds, status \in AccountStatuses :
               TellerTurn(p) /\ UpdateStatus(p, a, status)
        \/ UpdateStatusRead(p)
        \/ InternalTransferReadTo(p)
        \/ RestTransferReadDest(p)
        \/ InternalTransferUpdateFrom(p)
        \/ InternalTransferUpdateTo(p)
        \/ InternalTransferInsertSender(p)
        \/ CreateTransactionRead(p)
        \/ InternalTransferInsertReceiver(p)
        \/ GenerateReferenceRead(p)
        \/ GenerateReferenceWrite(p)

SpecTransfers == InitFunded /\ [][NextTransfers]_vars

\* --------------- Instapay sends and status changes, one request at a time
\* The amounts asked for: none, small ones, the limit, and more than the limit.
SendAmounts == {0} \cup Amounts \cup {InstapayLimit, InstapayLimit + 1}

NextSend ==
    \E p \in Procs :
        \/ \E a \in AnyAccountIds, amount \in SendAmounts :
               TellerTurn(p) /\ InstapaySend(p, a, amount)
        \/ \E n \in AnyAccountNumbers, amount \in SendAmounts :
               TellerTurn(p) /\ RestInstapaySend(p, n, amount)
        \/ \E a \in AnyAccountIds, status \in AccountStatuses :
               TellerTurn(p) /\ UpdateStatus(p, a, status)
        \/ UpdateStatusRead(p)
        \/ InstapaySendReadAccount(p)
        \/ InstapaySendUpdateBalance(p)
        \/ InstapaySendInsertLedger(p)
        \/ InstapaySendInsertRecord(p)
        \/ InstapaySendReadRecord(p)
        \/ GenerateReferenceRead(p)
        \/ GenerateReferenceWrite(p)

InitSend == InitFunded \/ InitWealthy

SpecSend == InitSend /\ [][NextSend]_vars

\* ------------- deposits on a new database over two days, one at a time
NextDays ==
    \/ DateChanges
    \/ \E p \in Procs :
        \/ \E a \in AccountIds, amount \in Amounts :
               SequentialTurn(p) /\ Deposit(p, a, amount)
        \/ DepositUpdateBalance(p)
        \/ GenerateReferenceRead(p)
        \/ GenerateReferenceWrite(p)
        \/ DepositInsert(p)
        \/ CreateTransactionRead(p)

SpecDays == InitFresh /\ [][NextDays]_vars

\* ------------------------------------- accounts created, overlapping
NextCreate ==
    \E p \in Procs :
        \/ \E b \in BranchCodes : ConcurrentTurn(p) /\ CreateAccount(p, b)
        \/ CreateAccountDraw(p)
        \/ CreateAccountInsert(p)
        \/ CreateAccountRead(p)
        \/ \E a \in AnyAccountIds, status \in AccountStatuses :
               ConcurrentTurn(p) /\ UpdateStatus(p, a, status)
        \/ UpdateStatusRead(p)

SpecCreate == InitFunded /\ [][NextCreate]_vars

\* ------------------------------- the whole engine, requests overlapping
Init == InitFunded

Next ==
    \E p \in Procs :
        \/ \E a \in AccountIds, amount \in Amounts : ConcurrentTurn(p) /\ Deposit(p, a, amount)
        \/ \E a \in AccountIds, amount \in Amounts : ConcurrentTurn(p) /\ Withdraw(p, a, amount)
        \/ \E a \in AccountIds, n \in AccountNumbers, amount \in Amounts :
               ConcurrentTurn(p) /\ InternalTransfer(p, a, n, amount)
        \/ \E a \in AccountIds, amount \in Amounts :
               ConcurrentTurn(p) /\ InstapaySend(p, a, amount)
        \/ \E r \in CallbackReferences, status \in CallbackStatuses :
               ConcurrentTurn(p) /\ InstapayCallback(p, r, status)
        \/ \E a \in AccountIds, status \in AccountStatuses :
               ConcurrentTurn(p) /\ UpdateStatus(p, a, status)
        \/ UpdateStatusRead(p)
        \/ \E n \in AccountNumbers, amount \in Amounts :
               ConcurrentTurn(p) /\ RestDeposit(p, n, amount)
        \/ \E n \in AccountNumbers, amount \in Amounts :
               ConcurrentTurn(p) /\ RestWithdrawal(p, n, amount)
        \/ \E n, m \in AccountNumbers, amount \in Amounts :
               ConcurrentTurn(p) /\ RestTransfer(p, n, m, amount)
        \/ \E n \in AccountNumbers, amount \in Amounts :
               ConcurrentTurn(p) /\ RestInstapaySend(p, n, amount)
        \/ RestTransferReadDest(p)
        \/ DepositUpdateBalance(p)
        \/ DepositInsert(p)
        \/ CreateTransactionRead(p)
        \/ WithdrawUpdateBalance(p)
        \/ WithdrawInsert(p)
        \/ InternalTransferReadTo(p)
        \/ InternalTransferUpdateFrom(p)
        \/ InternalTransferUpdateTo(p)
        \/ InternalTransferInsertSender(p)
        \/ InternalTransferInsertReceiver(p)
        \/ InstapaySendReadAccount(p)
        \/ InstapaySendUpdateBalance(p)
        \/ InstapaySendInsertLedger(p)
        \/ InstapaySendInsertRecord(p)
        \/ InstapaySendReadRecord(p)
        \/ InstapayCallbackReadAccount(p)
        \/ InstapayCallbackUpdateBalance(p)
        \/ InstapayCallbackInsertReversal(p)
        \/ InstapayCallbackUpdateStatus(p)
        \/ InstapayCallbackReadStatus(p)
        \/ GenerateReferenceRead(p)
        \/ GenerateReferenceWrite(p)

Spec == Init /\ [][Next]_vars

\* The statement request p is waiting to run.  Node runs every continuation
\* whose awaited statement has returned, and the database answers every
\* statement: a request that can take its next step does take it.
Step(p) ==
    \/ RestTransferReadDest(p)
    \/ UpdateStatusRead(p)
    \/ DepositUpdateBalance(p)
    \/ DepositInsert(p)
    \/ CreateTransactionRead(p)
    \/ WithdrawUpdateBalance(p)
    \/ WithdrawInsert(p)
    \/ InternalTransferReadTo(p)
    \/ InternalTransferUpdateFrom(p)
    \/ InternalTransferUpdateTo(p)
    \/ InternalTransferInsertSender(p)
    \/ InternalTransferInsertReceiver(p)
    \/ InstapaySendReadAccount(p)
    \/ InstapaySendUpdateBalance(p)
    \/ InstapaySendInsertLedger(p)
    \/ InstapaySendInsertRecord(p)
    \/ InstapaySendReadRecord(p)
    \/ InstapayCallbackReadAccount(p)
    \/ InstapayCallbackUpdateBalance(p)
    \/ InstapayCallbackInsertReversal(p)
    \/ InstapayCallbackUpdateStatus(p)
    \/ InstapayCallbackReadStatus(p)
    \/ GenerateReferenceRead(p)
    \/ GenerateReferenceWrite(p)

\* The requests of the whole engine, each for the whole opening balance.
LiveAmounts == {MaxAmount}

NextLive ==
    \E p \in Procs :
        \/ \E a \in AccountIds, amount \in LiveAmounts : ConcurrentTurn(p) /\ Deposit(p, a, amount)
        \/ \E a \in AccountIds, amount \in LiveAmounts : ConcurrentTurn(p) /\ Withdraw(p, a, amount)
        \/ \E a \in AccountIds, n \in AccountNumbers, amount \in LiveAmounts :
               ConcurrentTurn(p) /\ InternalTransfer(p, a, n, amount)
        \/ \E a \in AccountIds, amount \in LiveAmounts :
               ConcurrentTurn(p) /\ InstapaySend(p, a, amount)
        \/ \E r \in CallbackReferences, status \in CallbackStatuses :
               ConcurrentTurn(p) /\ InstapayCallback(p, r, status)
        \/ \E a \in AccountIds, status \in AccountStatuses :
               ConcurrentTurn(p) /\ UpdateStatus(p, a, status)
        \/ UpdateStatusRead(p)
        \/ \E n \in AccountNumbers, amount \in LiveAmounts :
               ConcurrentTurn(p) /\ RestDeposit(p, n, amount)
        \/ \E n \in AccountNumbers, amount \in LiveAmounts :
               ConcurrentTurn(p) /\ RestWithdrawal(p, n, amount)
        \/ \E n, m \in AccountNumbers, amount \in LiveAmounts :
               ConcurrentTurn(p) /\ RestTransfer(p, n, m, amount)
        \/ \E n \in AccountNumbers, amount \in LiveAmounts :
               ConcurrentTurn(p) /\ RestInstapaySend(p, n, amount)
        \/ RestTransferReadDest(p)
        \/ DepositUpdateBalance(p)
        \/ DepositInsert(p)
        \/ CreateTransactionRead(p)
        \/ WithdrawUpdateBalance(p)
        \/ WithdrawInsert(p)
        \/ InternalTransferReadTo(p)
        \/ InternalTransferUpdateFrom(p)
        \/ InternalTransferUpdateTo(p)
        \/ InternalTransferInsertSender(p)
        \/ InternalTransferInsertReceiver(p)
        \/ InstapaySendReadAccount(p)
        \/ InstapaySendUpdateBalance(p)
        \/ InstapaySendInsertLedger(p)
        \/ InstapaySendInsertRecord(p)
        \/ InstapaySendReadRecord(p)
        \/ InstapayCallbackReadAccount(p)
        \/ InstapayCallbackUpdateBalance(p)
        \/ InstapayCallbackInsertReversal(p)
        \/ InstapayCallbackUpdateStatus(p)
        \/ InstapayCallbackReadStatus(p)
        \/ GenerateReferenceRead(p)
        \/ GenerateReferenceWrite(p)

FairSpec == Init /\ [][NextLive]_vars /\ \A p \in Procs : WF_vars(Step(p))

\* ================================================================ claims
Ended(p, op) == pc[p] = "done" /\ loc[p].op = op
Succeeded(p, op) == Ended(p, op) /\ loc[p].result = "ok"
Arrived == {p \in Procs : pc[p] # "idle"}

LedgerRowsOf(accountId) ==
    {i \in 1..Len(transactions) : transactions[i].accountId = accountId}

\* C1: when all N overlapping deposits of one amount A into one account that
\* began at balance 0 have returned, the balance is N*A and the ledger holds N
\* rows of that account.
C1_NoLostDeposits ==
    \A a \in AccountIds, amount \in Amounts :
        (\A p \in 1..NumConc : /\ Succeeded(p, "deposit")
                                /\ loc[p].accountId = a
                                /\ loc[p].amount = amount)
        => /\ accounts[a].balance = NumConc * amount
           /\ Cardinality(LedgerRowsOf(a)) = NumConc

RECURSIVE SumBalances(_, _)
SumBalances(accs, ids) ==
    IF ids = {} THEN 0
    ELSE LET a == CHOOSE x \in ids : TRUE
         IN accs[a].balance + SumBalances(accs, ids \ {a})

\* C2: when only intrabank transfers have been made and all of them have ended,
\* the sum of the balances is what it was before the first of them.
C2_Conservation ==
    (Arrived # {} /\ \A p \in Arrived : Succeeded(p, "internalTransfer"))
    => SumBalances(accounts, AccountIds) = NumAccounts * InitialBalance

\* The references generateTransactionReference has returned to request p.
ReferencesReturned(p) == {loc[p].referenceNumber, loc[p].senderRef} \ {""}

\* C3: the references returned by calls of generateTransactionReference on one
\* date are pairwise distinct, also when the calls overlap.
C3_ReferencesDistinct ==
    \A p, q \in Procs :
        p # q => ReferencesReturned(p) \cap ReferencesReturned(q) = {}

DebitOps == {"withdraw", "internalTransfer", "instapaySend"}

\* C4: of two overlapping debits of one account whose amounts together exceed
\* the balance the account had when the first began, at most one succeeds.
C4_NoDoubleSpend ==
    \A p, q \in Procs :
        ( /\ p < q
          /\ \A r \in Procs \ {p, q} : pc[r] = "idle"
          /\ loc[p].op \in DebitOps /\ loc[q].op \in DebitOps
          /\ pc[p] = "done" /\ pc[q] = "done"
          /\ p \in loc[q].overlapped
          /\ loc[p].accountId = loc[q].accountId
          /\ loc[p].amount + loc[q].amount
                > loc[p].began.accounts[loc[p].accountId].balance )
        => ~(loc[p].result = "ok" /\ loc[q].result = "ok")

ReversalRows(referenceNumber) ==
    {i \in 1..Len(transactions) :
        transactions[i].description = ReversalDescription(referenceNumber)}

\* C5: whatever callbacks are delivered for a transfer, at most one reversal
\* row is written for it.
C5_AtMostOneReversal ==
    \A i \in 1..Len(instapayTransactions) :
        Cardinality(ReversalRows(instapayTransactions[i].referenceNumber)) <= 1

\* C6: a record whose status is SUCCESS or FAILED keeps that status in every
\* later state.
C6_TerminalStatusFinal ==
    [][\A i \in 1..Len(instapayTransactions) :
          instapayTransactions[i].status \in {"SUCCESS", "FAILED"}
          => instapayTransactions'[i].status = instapayTransactions[i].status]_vars

\* Request p sent a transfer and request p + 1, the next to arrive, was a
\* callback of `status` for its reference; both have ended.
SendThenCallback(p, status) ==
    /\ p + 1 \in Procs
    /\ Succeeded(p, "instapaySend")
    /\ Ended(p + 1, "instapayCallback")
    /\ loc[p + 1].cbReference = loc[p].referenceNumber
    /\ loc[p + 1].cbStatus = status

StatusIn(records, referenceNumber) ==
    {records[i].status : i \in {j \in 1..Len(records) :
                                    records[j].referenceNumber = referenceNumber}}

\* C7: a successful instapaySend of amount A from an account with balance B,
\* followed directly by a FAILED callback for its reference, leaves the balance
\* B, the record FAILED and one more ledger row: a DEPOSIT of +A on the account.
C7_ReversalRestores ==
    \A p \in Procs :
        SendThenCallback(p, "FAILED")
        => LET send == loc[p]
               cb == loc[p + 1]
               a == send.accountId
           IN /\ cb.result = "ok"
              /\ cb.ended.accounts[a].balance = send.began.accounts[a].balance
              /\ StatusIn(cb.ended.instapay, send.referenceNumber) = {"FAILED"}
              /\ Len(cb.ended.ledger) = Len(send.ended.ledger) + 1
              /\ SubSeq(cb.ended.ledger, 1, Len(send.ended.ledger)) = send.ended.ledger
              /\ LET row == cb.ended.ledger[Len(cb.ended.ledger)]
                 IN /\ row.type = "DEPOSIT"
                    /\ row.amount = send.amount
                    /\ row.accountId = a

C7_Witness ==
    \E p \in Procs :
        /\ SendThenCallback(p, "FAILED")
        /\ loc[p].amount > 0
        /\ loc[p + 1].wrote = {loc[p].accountId}

\* C8: once a SUCCESS callback has been applied to a PENDING transfer, no later
\* callback for its reference changes the source balance or the ledger.
C8_FinalizedNeverRefunded ==
    \A p, q \in Procs :
        ( /\ p < q
          /\ Succeeded(p, "instapayCallback")
          /\ loc[p].cbStatus = "SUCCESS"
          /\ loc[p].existingTx.status = "PENDING"
          /\ Ended(q, "instapayCallback")
          /\ loc[q].cbReference = loc[p].cbReference )
        => /\ loc[q].ended.accounts = loc[q].began.accounts
           /\ loc[q].ended.ledger = loc[q].began.ledger

\* Requests p and p + 1 delivered the same terminal callback one after the other.
SameCallbackTwice(p) ==
    /\ p + 1 \in Procs
    /\ Succeeded(p, "instapayCallback")
    /\ Succeeded(p + 1, "instapayCallback")
    /\ loc[p + 1].cbReference = loc[p].cbReference
    /\ loc[p + 1].cbStatus = loc[p].cbStatus
    /\ loc[p].cbStatus \in {"SUCCESS", "FAILED"}

\* C9: the same SUCCESS or FAILED callback delivered twice in succession leaves
\* the balances and the ledger after the second delivery as after the first.
C9_SecondDeliveryNoEffect ==
    \A p \in Procs :
        SameCallbackTwice(p)
        => /\ loc[p + 1].ended.accounts = loc[p].ended.accounts
           /\ loc[p + 1].ended.ledger = loc[p].ended.ledger

C9_Witness ==
    \E p \in Procs :
        /\ SameCallbackTwice(p)
        /\ loc[p].cbStatus = "FAILED"
        /\ loc[p].wrote # {}

\* C10: a posting that failed while generating its reference or inserting its
\* ledger row has changed no balance.
C10_FailedPostingWroteNothing ==
    \A p \in Procs :
        (pc[p] = "done" /\ loc[p].result = "INTERNAL_ERROR") => loc[p].wrote = {}

\* The sum of the signed amounts of the ledger rows of one account.
RECURSIVE SumAmounts(_, _)
SumAmounts(ledger, accountId) ==
    IF ledger = <<>> THEN 0
    ELSE (IF Head(ledger).accountId = accountId THEN Head(ledger).amount ELSE 0)
             + SumAmounts(Tail(ledger), accountId)

Quiescent == \A p \in Procs : ~Running(p)

\* C11: in every state in which no request is in progress, the balance of each
\* account (opened at 0) is the sum of the signed amounts of its ledger rows and
\* is the balanceAfter of the row appended last for it.
C11_BalanceMatchesLedger ==
    Quiescent =>
        \A a \in AccountIds :
            /\ accounts[a].balance = SumAmounts(transactions, a)
            /\ LedgerRowsOf(a) # {} =>
                   LET last == CHOOSE i \in LedgerRowsOf(a) : \A j \in LedgerRowsOf(a) : j <= i
                   IN accounts[a].balance = transactions[last].balanceAfter

\* C12: no account has a negative balance in any reachable state, whatever
\* deposits, withdrawals, transfers, Instapay sends and callbacks run and
\* however their statements interleave.
C12_BalanceNeverNegative == \A a \in DOMAIN accounts : accounts[a].balance >= 0

\* Two overlapping debits of one account have both succeeded although their
\* amounts together exceed the balance the account had.
C12_Witness ==
    \E p, q \in Procs :
        /\ p \in loc[q].overlapped
        /\ loc[p].op \in DebitOps /\ loc[q].op \in DebitOps
        /\ loc[p].result = "ok" /\ loc[q].result = "ok"
        /\ loc[p].accountId = loc[q].accountId
        /\ loc[p].amount + loc[q].amount > loc[p].began.accounts[loc[p].accountId].balance

\* The account a request names exists and is active when the request begins.
OnActiveAccount(p) ==
    /\ loc[p].account.id # 0
    /\ loc[p].began.accounts[loc[p].accountId].status = "active"

\* C13: a withdrawal of more than the balance changes no balance and adds no
\* ledger row, and on an active account it fails as "insufficient balance"; a
\* withdrawal of exactly the balance of an active account is accepted: it
\* leaves balance 0 and one more ledger row.
C13_InsufficientBalanceRejected ==
    \A p \in Procs :
        (Ended(p, "withdraw") /\ loc[p].account.id # 0)
        => LET l == loc[p]
               balance == l.began.accounts[l.accountId].balance
           IN /\ l.amount > balance
                 => /\ l.result # "ok"
                    /\ OnActiveAccount(p) => l.result = "INSUFFICIENT_BALANCE"
                    /\ l.ended.accounts = l.began.accounts
                    /\ l.ended.ledger = l.began.ledger
              /\ (l.amount = balance /\ OnActiveAccount(p))
                 => /\ l.result = "ok"
                    /\ l.ended.accounts[l.accountId].balance = 0
                    /\ Len(l.ended.ledger) = Len(l.began.ledger) + 1

\* One withdrawal took the whole balance and the next one, of the same
\* account, was refused.
C13_Witness ==
    \E p, q \in Procs :
        /\ p < q
        /\ Succeeded(p, "withdraw") /\ OnActiveAccount(p)
        /\ loc[p].amount = loc[p].began.accounts[loc[p].accountId].balance
        /\ Ended(q, "withdraw") /\ OnActiveAccount(q)
        /\ loc[q].accountId = loc[p].accountId
        /\ loc[q].result = "INSUFFICIENT_BALANCE"

\* C14: in no step does the balance of a closed account change or the ledger
\* get a row of a closed account.
C14_ClosedAccountUntouched ==
    [][\A a \in AccountIds :
          accounts[a].status = "closed"
          => /\ accounts'[a].balance = accounts[a].balance
             /\ \A i \in (Len(transactions) + 1)..Len(transactions') :
                    transactions'[i].accountId # a]_vars

\* The ids of the accounts of table `accs` that carry the number.
WithNumber(accs, number) == {a \in DOMAIN accs : accs[a].accountNumber = number}

\* The transfer request p named, when it began, a source or a destination that
\* does not exist, one account twice, a closed account, or more than the
\* source's balance.
TransferUnacceptable(p) ==
    LET l == loc[p]
        accs == l.began.accounts
        from == {l.accountId} \cap DOMAIN accs
        to == WithNumber(accs, l.toAccountNumber)
    IN \/ from = {}
       \/ to = {}
       \/ from = to
       \/ \E a \in from \cup to : accs[a].status = "closed"
       \/ \E a \in from : l.amount > accs[a].balance

\* C15: a transfer whose source or destination does not exist, whose source
\* is its destination, one of whose accounts is closed, or whose amount
\* exceeds the source's balance is rejected: no balance has changed and the
\* ledger has no new row.
C15_TransferRejected ==
    \A p \in Procs :
        (Ended(p, "internalTransfer") /\ TransferUnacceptable(p))
        => /\ loc[p].result # "ok"
           /\ loc[p].ended.accounts = loc[p].began.accounts
           /\ loc[p].ended.ledger = loc[p].began.ledger

\* C16: an Instapay send of more than the limit, or of an amount not above 0,
\* is rejected: no balance has changed, the ledger has no new row and no
\* Instapay record has been created.
C16_OverLimitRejected ==
    \A p \in Procs :
        (Ended(p, "instapaySend") /\ (loc[p].amount > InstapayLimit \/ loc[p].amount <= 0))
        => /\ loc[p].result # "ok"
           /\ loc[p].ended.accounts = loc[p].began.accounts
           /\ loc[p].ended.ledger = loc[p].began.ledger
           /\ loc[p].ended.instapay = loc[p].began.instapay

\* A send of more than the limit from an active account that holds the amount
\* was rejected, and so was a send of nothing.
C16_Witness ==
    \E p, q \in Procs :
        /\ Ended(p, "instapaySend") /\ Ended(q, "instapaySend")
        /\ loc[p].amount > InstapayLimit
        /\ OnActiveAccount(p)
        /\ loc[p].began.accounts[loc[p].accountId].balance >= loc[p].amount
        /\ loc[p].result = "VALIDATION_ERROR"
        /\ loc[q].amount <= 0
        /\ loc[q].result = "VALIDATION_ERROR"

\* The send request p named, when it began, a source account that does not
\* exist, is not active, or holds less than the amount.
SendUnacceptable(p) ==
    LET l == loc[p]
        accs == l.began.accounts
    IN \/ l.accountId \notin DOMAIN accs
       \/ accs[l.accountId].status # "active"
       \/ accs[l.accountId].balance < l.amount

\* C17: an Instapay send whose source account is missing, is not active or
\* holds less than the amount is rejected and leaves the balances, the ledger,
\* the Instapay records and the sequence counter as they were.
C17_RejectedSendChangesNothing ==
    \A p \in Procs :
        (Ended(p, "instapaySend") /\ SendUnacceptable(p))
        => /\ loc[p].result # "ok"
           /\ loc[p].ended = loc[p].began

\* C18: a successful Instapay send of amount A from an account with balance B
\* takes one reference R from the day's counter, sets that balance to B - A and
\* no other, appends one ledger row (R, INSTAPAY, -A, balanceAfter B - A) and
\* one Instapay record (R, amount A, PENDING), which is what it returns.
C18_SendPostsOnce ==
    \A p \in Procs :
        Succeeded(p, "instapaySend")
        => LET l == loc[p]
               a == l.accountId
               A == l.amount
               B == l.began.accounts[a].balance
               row == l.ended.ledger[Len(l.ended.ledger)]
               record == l.ended.instapay[Len(l.ended.instapay)]
           IN /\ l.ended.sequence =
                    [l.began.sequence EXCEPT ![l.dateStr] = l.began.sequence[l.dateStr] + 1]
              /\ l.referenceNumber = FormatReference(l.dateStr, l.ended.sequence[l.dateStr])
              /\ l.ended.accounts = [l.began.accounts EXCEPT ![a].balance = B - A]
              /\ Len(l.ended.ledger) = Len(l.began.ledger) + 1
              /\ SubSeq(l.ended.ledger, 1, Len(l.began.ledger)) = l.began.ledger
              /\ row.referenceNumber = l.referenceNumber
              /\ row.accountId = a
              /\ row.type = "INSTAPAY"
              /\ row.amount = -A
              /\ row.balanceAfter = B - A
              /\ Len(l.ended.instapay) = Len(l.began.instapay) + 1
              /\ SubSeq(l.ended.instapay, 1, Len(l.began.instapay)) = l.began.instapay
              /\ record.referenceNumber = l.referenceNumber
              /\ record.sourceAccountId = a
              /\ record.amount = A
              /\ record.status = "PENDING"
              /\ l.returnedStatus = "PENDING"

\* A send of the largest amount permitted has succeeded through
\* switch.instapaySend, and after it a second send from the same account
\* through POST /instapay/send.
C18_Witness ==
    \E p, q \in Procs :
        /\ p < q
        /\ Succeeded(p, "instapaySend") /\ Succeeded(q, "instapaySend")
        /\ loc[p].amount = InstapayLimit
        /\ loc[q].accountId = loc[p].accountId
        /\ loc[q].amount > 0
        /\ loc[p].handler = "trpc" /\ loc[q].handler = "rest"

\* C19: no step takes an account from closed to active.
C19_ClosedStaysClosed ==
    [][\A a \in AccountIds :
          accounts[a].status = "closed" => accounts'[a].status = "closed"]_vars

\* C20: every step leaves the rows the ledger holds as they are, in place;
\* it may add rows after them.
C20_LedgerAppendOnly ==
    [][/\ Len(transactions') >= Len(transactions)
       /\ SubSeq(transactions', 1, Len(transactions)) = transactions]_vars

\* A failed transfer has been corrected: the ledger holds the opening rows,
\* the row of the transfer and, after it, the row of its reversal.
C20_Witness ==
    \E p, q \in Procs :
        /\ Succeeded(p, "instapaySend")
        /\ Succeeded(q, "instapayCallback")
        /\ loc[q].cbReference = loc[p].referenceNumber
        /\ ReversalRows(loc[p].referenceNumber) # {}
        /\ SubSeq(transactions, 1, NumAccounts) = FundedLedger
        /\ \E i \in 1..Len(transactions) :
               /\ transactions[i].referenceNumber = loc[p].referenceNumber
               /\ \A j \in ReversalRows(loc[p].referenceNumber) : i < j

\* C21: a successful intrabank transfer of A from S to D appends exactly two
\* ledger rows, both INTERNAL_TRANSFER: one on S with amount -A naming D and
\* D's number, one on D with amount +A naming S and S's number; their
\* references differ, and the row on S is the one returned.
C21_TransferWritesTwoRows ==
    \A p \in Procs :
        Succeeded(p, "internalTransfer")
        => LET l == loc[p]
               S == l.account
               D == l.toAccount
               n == Len(l.began.ledger)
               onS == l.ended.ledger[n + 1]
               onD == l.ended.ledger[n + 2]
           IN /\ Len(l.ended.ledger) = n + 2
              /\ SubSeq(l.ended.ledger, 1, n) = l.began.ledger
              /\ onS.type = "INTERNAL_TRANSFER" /\ onD.type = "INTERNAL_TRANSFER"
              /\ onS.accountId = S.id /\ onS.amount = -l.amount
              /\ onS.relatedAccountId = D.id
              /\ onS.relatedAccountNumber = D.accountNumber
              /\ onD.accountId = D.id /\ onD.amount = l.amount
              /\ onD.relatedAccountId = S.id
              /\ onD.relatedAccountNumber = S.accountNumber
              /\ onS.referenceNumber # onD.referenceNumber
              /\ l.senderRef = onS.referenceNumber
              /\ S.id = l.accountId
              /\ D.accountNumber = l.toAccountNumber

\* Two transfers have succeeded, the second in the opposite direction.
C21_Witness ==
    \E p, q \in Procs :
        /\ p < q
        /\ Succeeded(p, "internalTransfer") /\ Succeeded(q, "internalTransfer")
        /\ loc[q].account.id = loc[p].toAccount.id
        /\ loc[q].toAccount.id = loc[p].account.id
        /\ Len(transactions) = NumAccounts + 4

\* C22: a callback for a reference that no Instapay record carries fails as
\* "not found" and leaves the balances, the ledger, the Instapay records and
\* the sequence counter as they were.
C22_UnknownReferenceNotFound ==
    \A p \in Procs :
        ( /\ Ended(p, "instapayCallback")
          /\ ~ReferenceTaken(loc[p].began.instapay, loc[p].cbReference) )
        => /\ loc[p].result = "NOT_FOUND"
           /\ loc[p].ended = loc[p].began

\* Request p changed the balance of its account by `delta` and no other
\* balance, and appended one ledger row: of `type`, with amount `delta`, the
\* new balance as balanceAfter, and the reference it returns.
PostedOnce(p, type, delta) ==
    LET l == loc[p]
        a == l.accountId
        B == l.began.accounts[a].balance
        n == Len(l.began.ledger)
        row == l.ended.ledger[n + 1]
    IN /\ l.ended.accounts = [l.began.accounts EXCEPT ![a].balance = B + delta]
       /\ Len(l.ended.ledger) = n + 1
       /\ SubSeq(l.ended.ledger, 1, n) = l.began.ledger
       /\ row.accountId = a
       /\ row.type = type
       /\ row.amount = delta
       /\ row.balanceAfter = B + delta
       /\ row.referenceNumber = l.referenceNumber

\* C23: a deposit of A > 0 on an existing, active account with balance B
\* succeeds; a successful deposit sets the balance to B + A and appends one
\* DEPOSIT row with amount +A and balanceAfter B + A, the row it returns; a
\* successful withdrawal of A sets the balance to B - A and appends one
\* WITHDRAWAL row with amount -A and balanceAfter B - A.
C23_DepositWithdrawPostOnce ==
    \A p \in Procs :
        /\ (Ended(p, "deposit") /\ OnActiveAccount(p) /\ loc[p].amount > 0)
           => loc[p].result = "ok"
        /\ Succeeded(p, "deposit") => PostedOnce(p, "DEPOSIT", loc[p].amount)
        /\ Succeeded(p, "withdraw") => PostedOnce(p, "WITHDRAWAL", -loc[p].amount)

\* A deposit has succeeded and after it a withdrawal from the same account.
C23_Witness ==
    \E p, q \in Procs :
        /\ p < q
        /\ Succeeded(p, "deposit") /\ Succeeded(q, "withdraw")
        /\ loc[q].accountId = loc[p].accountId
        /\ loc[q].amount > 0
        /\ loc[q].ended.accounts[loc[q].accountId].balance
              = InitialBalance + loc[p].amount - loc[q].amount

\* Request p has ended and has generated a reference.
Generated(p) == pc[p] = "done" /\ loc[p].referenceNumber # ""

\* C24: a generated reference is TXN, the date and the 6-digit number one
\* above the date's counter, which it raises to that number; the first of a
\* date is numbered 000001 and each later one is numbered above all before
\* it; when the date has changed the first is 000001 under the new date and
\* the counter rows of other dates stay as they were.
C24_SequencePerDate ==
    \A p \in Procs :
        Generated(p)
        => LET l == loc[p]
               d == l.dateStr
               k == l.began.sequence[d]
           IN /\ l.referenceNumber = FormatReference(d, k + 1)
              /\ k = 0 => l.referenceNumber = "TXN" \o d \o "000001"
              /\ l.ended.sequence = [l.began.sequence EXCEPT ![d] = k + 1]
              /\ \A q \in 1..(p - 1) :
                     (Generated(q) /\ loc[q].dateStr = d)
                     => loc[q].ended.sequence[d] < l.ended.sequence[d]

\* Two references of one day, then the first of the next day, numbered 1,
\* with the first day's counter still at 2.
C24_Witness ==
    /\ \A p \in Procs : Generated(p)
    /\ loc[1].referenceNumber = "TXN20260115000001"
    /\ loc[2].referenceNumber = "TXN20260115000002"
    /\ loc[3].referenceNumber = "TXN20260116000001"
    /\ transactionSequence["20260115"] = 2
    /\ transactionSequence["20260116"] = 1

\* C25: under fair scheduling every request that has been made ends, with a
\* result or an error, whatever other requests run beside it.
C25_EveryRequestEnds == \A p \in Procs : Running(p) ~> pc[p] = "done"

\* Two overlapping transfers between the same two accounts, in opposite
\* directions, have both ended.
C25_Witness ==
    \E p, q \in Procs :
        /\ p \in loc[q].overlapped
        /\ Ended(p, "internalTransfer") /\ Ended(q, "internalTransfer")
        /\ loc[p].wrote # {} /\ loc[q].wrote # {}
        /\ loc[q].account.id = loc[p].toAccount.id
        /\ loc[q].toAccount.id = loc[p].account.id

\* No request was in progress while request p was.
Alone(p) == loc[p].overlapped = {} /\ \A q \in Procs : p \notin loc[q].overlapped

NumbersOf(accs) == {accs[a].accountNumber : a \in DOMAIN accs}

\* A status update has named the account and asked for `status`.
StatusSetTo(accountId, status) ==
    \E q \in Procs : /\ loc[q].op = "updateStatus"
                     /\ loc[q].accountId = accountId
                     /\ loc[q].status = status

\* C26: no two accounts have the same number, also when creations overlap;
\* a created account has balance 0, status active (as long as no status
\* update has closed it) and a number made of the branch code and 7 digits
\* that no account had before; a creation whose 100
\* draws all collided fails, having inserted no account, and no creation
\* fails that way earlier.
C26_CreateAccount ==
    /\ \A a, b \in DOMAIN accounts :
           a # b => accounts[a].accountNumber # accounts[b].accountNumber
    /\ \A p \in Procs :
           /\ Succeeded(p, "createAccount")
              => LET l == loc[p]
                 IN /\ l.account.balance = 0
                    /\ l.account.status = "active" \/ StatusSetTo(l.account.id, "closed")
                    /\ Alone(p) => l.account.status = "active"
                    /\ Len(l.account.accountNumber) = Len(l.branchCode) + 7
                    /\ \E randomPart \in Suffixes :
                           l.account.accountNumber = l.branchCode \o NumToString(randomPart)
                    /\ l.account.accountNumber \notin NumbersOf(l.began.accounts)
                    /\ l.account.id \notin DOMAIN l.began.accounts
                    /\ l.ended.accounts[l.account.id] = l.account
                    /\ l.attempts < MaxAttempts
                    /\ Alone(p) => l.ended.accounts = Append(l.began.accounts, l.account)
           /\ (Ended(p, "createAccount") /\ loc[p].attempts >= MaxAttempts)
              => /\ loc[p].result # "ok"
                 /\ loc[p].attempts = MaxAttempts
                 /\ loc[p].account.id = 0
                 /\ Alone(p) => loc[p].ended.accounts = loc[p].began.accounts
           /\ (Ended(p, "createAccount") /\ loc[p].result # "ok" /\ Alone(p))
              => loc[p].attempts = MaxAttempts

\* An account has been created with the last free number and the creation
\* after it has given up after 100 collisions.
C26_Witness ==
    \E p, q \in Procs :
        /\ p < q
        /\ Succeeded(p, "createAccount")
        /\ Ended(q, "createAccount") /\ Alone(q)
        /\ loc[q].attempts = MaxAttempts
        /\ loc[q].result = "INTERNAL_ERROR"
        /\ Len(accounts) = NumAccounts + 1

\* The reversal rows of `record` that are what a reversal should be: a DEPOSIT
\* of the record's amount on the record's source account.
ProperReversalRows(record) ==
    {i \in ReversalRows(record.referenceNumber) :
        /\ transactions[i].type = "DEPOSIT"
        /\ transactions[i].amount = record.amount
        /\ transactions[i].accountId = record.sourceAccountId}

\* C27: when no request is in progress, a record is FAILED exactly when one
\* reversal row (a DEPOSIT of its amount on its source account) was written
\* for it, and a PENDING or SUCCESS record has no reversal row.
C27_FailedIffReversed ==
    Quiescent
    => \A i \in 1..Len(instapayTransactions) :
          LET record == instapayTransactions[i]
              rows == ReversalRows(record.referenceNumber)
          IN /\ record.status = "FAILED"
                <=> (Cardinality(rows) = 1 /\ rows = ProperReversalRows(record))
             /\ record.status \in {"PENDING", "SUCCESS"} => rows = {}

DepositDescriptions == {"Manual Deposit", "Deposit via API"}

WithdrawalDescriptions == {"Manual Withdrawal", "Withdrawal via API"}

RECURSIVE TotalPosted(_, _)
\* The total of the amounts (without sign) of the ledger rows that deposits,
\* or withdrawals, have written.
TotalPosted(ledger, descriptions) ==
    IF ledger = <<>> THEN 0
    ELSE (IF Head(ledger).description \in descriptions
          THEN (IF Head(ledger).amount < 0 THEN -Head(ledger).amount ELSE Head(ledger).amount)
          ELSE 0)
             + TotalPosted(Tail(ledger), descriptions)

RECURSIVE TotalSent(_)
\* The total of the amounts of the transfer records that are PENDING or SUCCESS.
TotalSent(records) ==
    IF records = <<>> THEN 0
    ELSE (IF Head(records).status \in {"PENDING", "SUCCESS"} THEN Head(records).amount ELSE 0)
             + TotalSent(Tail(records))

\* C28: when no request is in progress, the sum of all balances is the total
\* of the deposits made, less the total of the withdrawals made, less the
\* amounts of the transfer records that are PENDING or SUCCESS.
C28_GlobalAccounting ==
    Quiescent
    => SumBalances(accounts, DOMAIN accounts)
          = TotalPosted(transactions, DepositDescriptions)
               - TotalPosted(transactions, WithdrawalDescriptions)
               - TotalSent(instapayTransactions)

\* No two rows of the table carry the same reference.
ReferencesDistinct(table) ==
    \A i, j \in 1..Len(table) :
        i # j => table[i].referenceNumber # table[j].referenceNumber

\* C29: in every reachable state no two ledger rows carry the same reference
\* and no two transfer records do; of two requests that were handed the same
\* reference at most one has ended well: an insert of a reference that is
\* stored already is refused.
C29_ReferencesUnique ==
    /\ ReferencesDistinct(transactions)
    /\ ReferencesDistinct(instapayTransactions)
    /\ \A p, q \in Procs :
           ( /\ p # q
             /\ pc[p] = "done" /\ pc[q] = "done"
             /\ loc[p].referenceNumber # ""
             /\ loc[p].referenceNumber = loc[q].referenceNumber )
           => ~(loc[p].result = "ok" /\ loc[q].result = "ok")

\* Two overlapping requests were handed the same reference: one stored its
\* row, the other one's insert was refused.
C29_Witness ==
    \E p, q \in Procs :
        /\ p # q
        /\ q \in loc[p].overlapped
        /\ pc[p] = "done" /\ pc[q] = "done"
        /\ loc[p].referenceNumber # ""
        /\ loc[p].referenceNumber = loc[q].referenceNumber
        /\ loc[p].result = "ok"
        /\ loc[q].result = "INTERNAL_ERROR"
        /\ Cardinality({i \in 1..Len(transactions) :
                           transactions[i].referenceNumber = loc[p].referenceNumber}) = 1

\* The calls of generateTransactionReference for date d made by the deposits
\* that funded the accounts before the first request.
FundingCalls(d) == IF d = "20260115" THEN NumAccounts ELSE 0

RECURSIVE CallsCompleted(_, _)
\* The calls for date d that the requests `ps` have completed: each returned a
\* reference, and a transfer keeps both of its two.
CallsCompleted(ps, d) ==
    IF ps = {} THEN 0
    ELSE LET p == CHOOSE x \in ps : TRUE
         IN (IF loc[p].dateStr = d THEN Cardinality(ReferencesReturned(p)) ELSE 0)
                + CallsCompleted(ps \ {p}, d)

\* The counter of every date is what it was or higher after any step.
CounterNeverDecreases ==
    [][\A d \in Dates : transactionSequence'[d] >= transactionSequence[d]]_vars

\* With no request in progress the counter of a date is the number of calls
\* completed for it.
CounterCountsCalls ==
    [](Quiescent => \A d \in Dates :
                       transactionSequence[d] = FundingCalls(d) + CallsCompleted(Procs, d))

\* C30: the counter of a date never decreases (and its row, once there, stays),
\* however calls of generateTransactionReference overlap, and when no call is
\* in progress it equals the number of calls completed for the date.
C30_CounterMonotonicAndExact == CounterNeverDecreases /\ CounterCountsCalls

====
